---- MODULE Spec2Model ----
(***************************************************************************)
(* Cartridge loading calculator (cartridge_loading.py).                    *)
(*                                                                         *)
(* The script is a sequential program: the entry point reads its inputs    *)
(* (command line or prompts), calls plot_cartridge_response, which calls   *)
(* cartridge_frequency_response twice, writes the image and prints the     *)
(* report.  The model follows that control flow with a program counter.    *)
(*                                                                         *)
(* Floating point is modelled in fixed point, each quantity in its own     *)
(* unit:                                                                   *)
(*   frequencies          deci-hertz      (200 is 20.0 Hz)                 *)
(*   base-10 exponents    centi-decades   (130 is 10^1.30)                 *)
(*   magnitudes           deci-decibels   (30 is 3.0 dB)                   *)
(*   phases               degrees, in steps of 5                           *)
(*   Q                    thousandths     (1000 is 1.000)                  *)
(* The three values NegInf, PosInf and NaN stand for the IEEE specials.    *)
(* The arithmetic rounds, as every finite-precision arithmetic does; its   *)
(* resolution is coarser than a double's, the operations and their order   *)
(* are those of the source.                                                *)
(***************************************************************************)
EXTENDS Integers, Sequences, FiniteSets, TLC

\* ------------------------------------------------------------------------
\* Bounds of the model
\* ------------------------------------------------------------------------

\* Samples of the audible sweep (num_points=2000 in the source, line 100).
NumPointsAudible == 11

\* Samples of the extended sweep (num_points=3000 in the source, line 105).
NumPointsExtended == 18

\* Largest sampleCount the stand-alone calculator is called with.
MaxSampleCount == 5

\* ------------------------------------------------------------------------
\* IEEE specials
\* ------------------------------------------------------------------------

PosInf == 1073741824

NegInf == -1073741824

NaN == 1073741825

IsNaN(x) == x = NaN

\* x > y on floats: every comparison with a NaN is false.
Gt(x, y) == ~IsNaN(x) /\ ~IsNaN(y) /\ x > y

\* x >= y on floats.
Ge(x, y) == ~IsNaN(x) /\ ~IsNaN(y) /\ x >= y

Abs(x) == IF x < 0 THEN -x ELSE x

\* ------------------------------------------------------------------------
\* np.log10 and 10 ** y at the model's resolution
\* ------------------------------------------------------------------------

\* Pow10Table[k + 1] is 1000 * 10^(k/100), rounded, for k = 0 .. 100.
Pow10Table ==
  << 1000, 1023, 1047, 1072, 1096, 1122, 1148, 1175, 1202, 1230,
     1259, 1288, 1318, 1349, 1380, 1413, 1445, 1479, 1514, 1549,
     1585, 1622, 1660, 1698, 1738, 1778, 1820, 1862, 1905, 1950,
     1995, 2042, 2089, 2138, 2188, 2239, 2291, 2344, 2399, 2455,
     2512, 2570, 2630, 2692, 2754, 2818, 2884, 2951, 3020, 3090,
     3162, 3236, 3311, 3388, 3467, 3548, 3631, 3715, 3802, 3890,
     3981, 4074, 4169, 4266, 4365, 4467, 4571, 4677, 4786, 4898,
     5012, 5129, 5248, 5370, 5495, 5623, 5754, 5888, 6026, 6166,
     6310, 6457, 6607, 6761, 6918, 7079, 7244, 7413, 7586, 7762,
     7943, 8128, 8318, 8511, 8710, 8913, 9120, 9333, 9550, 9772,
     10000 >>

RECURSIVE IntPow10(_)
IntPow10(e) == IF e <= 0 THEN 1 ELSE 10 * IntPow10(e - 1)

\* 10 ** (y / 100) in tenths: Pow10(130) = 200, i.e. 20.0.
Pow10(y) ==
  LET d == y \div 100
      k == y % 100
      m == Pow10Table[k + 1]
  IN  IF d >= 2 THEN m * IntPow10(d - 2)
      ELSE (m + (IntPow10(2 - d) \div 2)) \div IntPow10(2 - d)

\* The mantissa of n scaled into 1000 .. 9999 and the decimal exponent that
\* scaling removed: n is about Mantissa * 10^(Exponent - 3).
RECURSIVE Normalise(_, _)
Normalise(m, d) ==
  IF m >= 10000 THEN Normalise(m \div 10, d + 1)
  ELSE IF m < 1000 THEN Normalise(m * 10, d - 1)
  ELSE <<m, d>>

\* The largest k in lo .. hi - 1 with Pow10Table[k + 1] <= m, by bisection.
RECURSIVE TableFloor(_, _, _)
TableFloor(m, lo, hi) ==
  IF hi - lo <= 1 THEN lo
  ELSE LET mid == (lo + hi) \div 2
       IN  IF Pow10Table[mid + 1] <= m THEN TableFloor(m, mid, hi)
           ELSE TableFloor(m, lo, mid)

\* np.log10(n) in centi-decades, to the nearest entry of the table, for an
\* integer n: log10 of 0 is -inf and of a negative number NaN.
Log10(n) ==
  IF n = 0 THEN NegInf
  ELSE IF n < 0 THEN NaN
  ELSE
    LET nd == Normalise(n, 0)
        m  == nd[1]
        lo == TableFloor(m, 0, 101)
        k  == IF lo < 100 /\ Pow10Table[lo + 2] - m < m - Pow10Table[lo + 1]
              THEN lo + 1 ELSE lo
    IN  (nd[2] + 3) * 100 + k

\* np.linspace(start, stop, num, endpoint=False): the variant that stops
\* one step short of stop.
linspaceOpenEnded(start, stop, num) ==
  LET step == (stop - start) \div num
  IN  [i \in 1 .. num |-> start + (i - 1) * step]

\* np.linspace(start, stop, num): step = (stop - start) / (num - 1), the
\* samples start + i * step, and the last one set to stop itself.
linspace(start, stop, num) ==
  LET step == (stop - start) \div (num - 1)
  IN  [i \in 1 .. num |-> IF i = num THEN stop ELSE start + (i - 1) * step]

\* np.logspace(start, stop, num) = 10 ** np.linspace(start, stop, num).
logspace(start, stop, num) ==
  LET y == linspace(start, stop, num)
  IN  [i \in 1 .. num |-> Pow10(y[i])]

\* ------------------------------------------------------------------------
\* The transfer function (lines 54-71)
\* ------------------------------------------------------------------------
\* With Z_cap = 1/(jwC), Z_load = R Z_cap / (R + Z_cap) = R / (1 + jwRC) and
\* Z_cart = R_cart + jwL the source's H = Z_load / (Z_cart + Z_load) is
\*     H = 1 / (A + jB),  A = 1 + R_cart/R - w^2 L C,  B = wL/R + w R_cart C
\* All four are dimensionless and are held in thousandths.

\* omega = 2 * pi * f in rad/s, for f in deci-hertz.
omega(f) == (3142 * f) \div 5000

\* omega * L in ohms (L_cart_mH in millihenries).
XL(f, L_cart_mH) == (omega(f) * L_cart_mH) \div 1000

\* omega * C in nanosiemens (C_total_pF in picofarads).
YC(f, C_total_pF) == (omega(f) * C_total_pF) \div 1000

\* Re(1/H) in thousandths.
DenRe(f, L_cart_mH, R_cart_ohms, R_load_kohms, C_total_pF) ==
  1000 + (R_cart_ohms \div R_load_kohms)
       - (((XL(f, L_cart_mH) \div 100) * (YC(f, C_total_pF) \div 10)) \div 1000)

\* Im(1/H) in thousandths.
DenIm(f, L_cart_mH, R_cart_ohms, R_load_kohms, C_total_pF) ==
  (XL(f, L_cart_mH) \div R_load_kohms)
  + ((R_cart_ohms * YC(f, C_total_pF)) \div 1000000)

\* 20 * log10(|H|) in deci-decibels: |H|^2 = 10^6 / (A^2 + B^2) with A and B
\* in thousandths, so 10 log10 |H|^2 = 60 dB - 10 log10(A^2 + B^2).
MagnitudeAt(f, L_cart_mH, R_cart_ohms, R_load_kohms, C_total_pF) ==
  LET A == DenRe(f, L_cart_mH, R_cart_ohms, R_load_kohms, C_total_pF)
      B == DenIm(f, L_cart_mH, R_cart_ohms, R_load_kohms, C_total_pF)
      D == A * A + B * B
  IN  IF D = 0 THEN PosInf ELSE 600 - Log10(D)

\* tan(5k degrees) in thousandths, k = 1 .. 17.
TanTable ==
  << 87, 176, 268, 364, 466, 577, 700, 839, 1000,
     1192, 1428, 1732, 2145, 2747, 3732, 5671, 11430 >>

\* atan2(y, x) in degrees, rounded towards the x axis to a multiple of 5.
Atan2Deg(y, x) ==
  LET ax == Abs(x)
      ay == Abs(y)
      t  == IF ax = 0 THEN (IF ay = 0 THEN 0 ELSE 90)
            ELSE 5 * Cardinality({k \in 1 .. 17 : TanTable[k] * ax <= 1000 * ay})
      s  == IF y < 0 THEN -1 ELSE 1
  IN  IF x >= 0 THEN s * t ELSE s * (180 - t)

\* np.angle(H) * 180 / pi: H = 1 / (A + jB) has the argument of A - jB.
PhaseAt(f, L_cart_mH, R_cart_ohms, R_load_kohms, C_total_pF) ==
  Atan2Deg(-DenIm(f, L_cart_mH, R_cart_ohms, R_load_kohms, C_total_pF),
           DenRe(f, L_cart_mH, R_cart_ohms, R_load_kohms, C_total_pF))

\* ------------------------------------------------------------------------
\* Resonance and Q (lines 73-83)
\* ------------------------------------------------------------------------

\* The integer square root of n >= 0, by bisection on lo <= sqrt(n) < hi.
RECURSIVE SqrtBisect(_, _, _)
SqrtBisect(n, lo, hi) ==
  IF hi - lo <= 1 THEN lo
  ELSE LET mid == (lo + hi) \div 2
       IN  IF mid * mid <= n THEN SqrtBisect(n, mid, hi)
           ELSE SqrtBisect(n, lo, mid)

\* np.sqrt: NaN for a negative argument.
Sqrt(n) == IF n < 0 THEN NaN ELSE SqrtBisect(n, 0, 46340)

\* f_res_ideal = 1 / (2 pi sqrt(L C)) in deci-hertz.  L C is
\* L_cart_mH * C_total_pF * 1e-15, so sqrt(L C) = sqrt(10 L_mH C_pF) * 1e-8
\* and f_res = 1e8 / (2 pi sqrt(10 L_mH C_pF)) Hz.
FResIdeal(L_cart_mH, C_total_pF) ==
  LET s == Sqrt(10 * L_cart_mH * C_total_pF)
  IN  IF IsNaN(s) THEN NaN
      ELSE IF s = 0 THEN PosInf
      ELSE 159154943 \div s

\* Z0 = sqrt(L / C) in ohms: L / C is L_cart_mH / C_total_pF * 1e9, so
\* Z0 = 100 * sqrt(L_cart_mH * 1e5 / C_total_pF).  C_total_pF is not 0 here.
CharacteristicImpedance(L_cart_mH, C_total_pF) ==
  LET s == Sqrt((L_cart_mH * 100000) \div C_total_pF)
  IN  IF IsNaN(s) THEN NaN ELSE 100 * s

\* The variant of Q that takes sqrt(L / C) with L in henries and C in
\* nanofarads (sqrt(0.5 / 200e-9) = 1581) over R_cart + R_load in ohms.
QFactorNanofarads(L_cart_mH, R_cart_ohms, R_load_kohms, C_total_pF) ==
  LET s       == Sqrt((L_cart_mH * 1000000) \div C_total_pF)
      R_total == R_cart_ohms + R_load_kohms * 1000
  IN  IF IsNaN(s) THEN NaN
      ELSE IF R_total = 0 THEN (IF s = 0 THEN NaN ELSE PosInf)
      ELSE (s * 1000) \div R_total

\* Q = Z0 / R_total in thousandths; a numpy scalar divided by zero is an
\* infinity (or NaN for 0/0) with a warning, not an exception.
QFactor(L_cart_mH, R_cart_ohms, R_load_kohms, C_total_pF) ==
  LET Z0      == CharacteristicImpedance(L_cart_mH, C_total_pF)
      R_total == R_cart_ohms + R_load_kohms * 1000
  IN  IF IsNaN(Z0) THEN NaN
      ELSE IF R_total = 0 THEN (IF Z0 = 0 THEN NaN ELSE PosInf)
      ELSE (Z0 * 1000) \div R_total

\* ------------------------------------------------------------------------
\* cartridge_frequency_response (lines 19-85)
\* ------------------------------------------------------------------------

\* The frequencies of the sweep (line 53), low and high in hertz.
Frequencies(low_Hz, high_Hz, num_points) ==
  logspace(Log10(low_Hz), Log10(high_Hz), num_points)

\* The value returned, or the exception raised: L / C on line 81 divides two
\* Python floats and raises ZeroDivisionError when C is 0.
cartridge_frequency_response(L_cart_mH, R_cart_ohms, R_load_kohms, C_total_pF, low_Hz, high_Hz, num_points) ==
  IF C_total_pF = 0
  THEN [raised |-> "ZeroDivisionError", frequencies |-> << >>,
        magnitude_dB |-> << >>, phase_deg |-> << >>, f_res_ideal |-> NaN, Q |-> NaN]
  ELSE
    LET frequencies == Frequencies(low_Hz, high_Hz, num_points)
    IN  [raised       |-> "none",
         frequencies  |-> frequencies,
         magnitude_dB |-> [i \in 1 .. Len(frequencies) |->
                             MagnitudeAt(frequencies[i], L_cart_mH, R_cart_ohms,
                                         R_load_kohms, C_total_pF)],
         phase_deg    |-> [i \in 1 .. Len(frequencies) |->
                             PhaseAt(frequencies[i], L_cart_mH, R_cart_ohms,
                                     R_load_kohms, C_total_pF)],
         f_res_ideal  |-> FResIdeal(L_cart_mH, C_total_pF),
         Q            |-> QFactor(L_cart_mH, R_cart_ohms, R_load_kohms, C_total_pF)]

\* ------------------------------------------------------------------------
\* Strings: the tokens of the model and the conversions applied to them
\* ------------------------------------------------------------------------

\* float(s) of the numerals of the model; float() ignores surrounding
\* white space, and raises ValueError for every other token.
NumeralValue ==
  [s \in {"500", "100", "-500", "600", "3000", "-600", " 600 ",
          "47", "-47", "200", "0", "-200", "1"} |->
     CASE s = "500"   -> 500
       [] s = "100"   -> 100
       [] s = "-500"  -> -500
       [] s = "600"   -> 600
       [] s = "3000"  -> 3000
       [] s = "-600"  -> -600
       [] s = " 600 " -> 600
       [] s = "47"    -> 47
       [] s = "-47"   -> -47
       [] s = "200"   -> 200
       [] s = "0"     -> 0
       [] s = "-200"  -> -200
       [] s = "1"     -> 1]

Parseable(s) == s \in DOMAIN NumeralValue

\* str.lower() on the tokens of the model.
Lower(s) ==
  CASE s = "LOG" -> "log"
    [] s = "Yes" -> "yes"
    [] OTHER     -> s

\* str.strip() on the tokens of the model.
Strip(s) ==
  CASE s = " "     -> ""
    [] s = " 600 " -> "600"
    [] OTHER       -> s

\* ------------------------------------------------------------------------
\* Inputs of a run
\* ------------------------------------------------------------------------

\* The command-line tokens tried at each position (sys.argv[1] .. [6]).
ArgTokens ==
  << {"500", "100", "-500", "abc"},
     {"600", "3000", "-600", "abc"},
     {"47", "100", "-47", "abc"},
     {"200", "100", "0", "-200", "abc"},
     {"log", "LOG", "logarithmic", "true", "1", "linear", "yes"},
     {"phase", "true", "1", "yes", "Yes", "no", "log"} >>

\* The command lines of exactly n arguments.
RECURSIVE ArgsOfLength(_)
ArgsOfLength(n) ==
  IF n = 0 THEN {<< >>}
  ELSE {Append(a, t) : a \in ArgsOfLength(n - 1), t \in ArgTokens[n]}

\* Every command line of the model: 0 to 6 arguments.
CommandLines == UNION {ArgsOfLength(n) : n \in 0 .. 6}

\* The answers tried at each prompt.
Answers ==
  << {"", " ", "100", "-500", "abc"},
     {"", " 600 ", "3000", "abc"},
     {"", "100", "abc"},
     {"", "100", "0", "abc"},
     {"", "log", "LOG", "logarithmic", "linear", "true"},
     {"", "yes", "y", "true", "1", "Yes", "no", "phase"} >>

\* The calls of the stand-alone calculator: valid circuit parameters, and
\* ranges with 0 < low_Hz < high_Hz whose samples lie further apart than the
\* resolution of the exponents.
CalculatorCalls ==
  [L_cart_mH : {100, 500}, R_cart_ohms : {0, 600}, R_load_kohms : {47, 100},
   C_total_pF : {100, 200},
   low_Hz : {10, 20, 50, 100, 1000}, high_Hz : {100, 1000, 20000, 50000},
   num_points : 2 .. MaxSampleCount]

\* ------------------------------------------------------------------------
\* State
\* ------------------------------------------------------------------------

VARIABLES
  argv,      \* sys.argv[1:], fixed for the run
  typed,     \* the answers input() has returned so far, in order
  pc,        \* the position in the script
  env,       \* the entry point's variables assigned so far (name -> value)
  rendered,  \* the arguments of each call of plot_cartridge_response
  request,   \* the arguments of each call of cartridge_frequency_response
  returned,  \* what the last call of cartridge_frequency_response returned
  locals,    \* the renderer's variables assigned so far (name -> value)
  fs,        \* the file system: output directory made, image written
  out,       \* the lines printed, in order, each with the values it shows
  events,    \* history: the calls and writes of the run, in order
  exc,       \* the exception being raised, or "none"
  status     \* the exit status; -1 while the script runs

vars == <<argv, typed, pc, env, rendered, request, returned, locals, fs, out,
          events, exc, status>>

\* The result of a call that has not happened.
NoResponse ==
  [raised |-> "not called", frequencies |-> << >>, magnitude_dB |-> << >>,
   phase_deg |-> << >>, f_res_ideal |-> NaN, Q |-> NaN]

\* The function with no argument: no variable assigned yet.
Empty == [x \in {} |-> 0]

Init ==
  /\ argv \in CommandLines
  /\ typed = << >>
  /\ pc = "start"
  /\ env = Empty
  /\ rendered = << >>
  /\ request = << >>
  /\ returned = NoResponse
  /\ locals = Empty
  /\ fs \in [output_dir : BOOLEAN, image : {FALSE}]
  /\ out = << >>
  /\ events = << >>
  /\ exc = "none"
  /\ status = -1

\* ------------------------------------------------------------------------
\* Printing
\* ------------------------------------------------------------------------

\* A printed line: its text, and the values its format fields show.
Line(text, values) == [text |-> text, values |-> values]

Text(text) == Line(text, << >>)

\* f"{x:.0f}" of a value held in tenths: the nearest integer, ties to even.
Format0(x) ==
  IF x \in {NaN, PosInf, NegInf} THEN x
  ELSE LET q == x \div 10
           r == x % 10
       IN  IF r > 5 \/ (r = 5 /\ q % 2 = 1) THEN q + 1 ELSE q

\* ------------------------------------------------------------------------
\* Entry point, command-line mode (lines 282-306)
\* ------------------------------------------------------------------------

\* The names float(sys.argv[1]) .. float(sys.argv[4]) are assigned to.
ArgNames == << "L_cart", "R_cart", "R_load", "C_total" >>

\* The exception float(sys.argv[i]) raises: IndexError for a missing
\* argument, ValueError for one that is no number.
FloatArgError(a, i) ==
  IF Len(a) < i THEN "IndexError"
  ELSE IF ~Parseable(a[i]) THEN "ValueError"
  ELSE "none"

\* The first of lines 285-288 that raises, 5 when none does.
CliFailsAt(a) ==
  IF \A i \in 1 .. 4 : FloatArgError(a, i) = "none" THEN 5
  ELSE CHOOSE i \in 1 .. 4 :
         /\ FloatArgError(a, i) # "none"
         /\ \A j \in 1 .. i - 1 : FloatArgError(a, j) = "none"

\* The variant of line 289 without .lower().
CliUseLogCaseSensitive(a) ==
  IF Len(a) >= 5 THEN a[5] \in {"log", "logarithmic", "true", "1"}
  ELSE TRUE

\* Line 289.
CliUseLog(a) ==
  IF Len(a) >= 5 THEN Lower(a[5]) \in {"log", "logarithmic", "true", "1"}
  ELSE TRUE

\* Line 290.
CliShowPhase(a) ==
  IF Len(a) >= 6 THEN Lower(a[6]) \in {"phase", "true", "1", "yes"}
  ELSE TRUE

\* plot_cartridge_response(L_cart, R_cart, R_load, C_total, use_log,
\* show_phase=show_phase): the arguments as the renderer receives them.
RendererCall(e) ==
  [L_cart |-> e.L_cart, R_cart |-> e.R_cart, R_load |-> e.R_load,
   C_total |-> e.C_total, use_log_scale |-> e.use_log,
   show_phase |-> e.show_phase]

\* Lines 282-293 up to the call of the renderer: the four conversions in
\* order, each assigned before the next is tried, then the two flags.
CliParse ==
  /\ pc = "start"
  /\ Len(argv) > 0
  /\ LET n      == CliFailsAt(argv)
         floats == [i \in 1 .. n - 1 |-> NumeralValue[argv[i]]]
         parsed == [name \in {ArgNames[i] : i \in 1 .. n - 1} |->
                      floats[CHOOSE i \in 1 .. n - 1 : ArgNames[i] = name]]
     IN  IF n <= 4
         THEN /\ env' = parsed
              /\ exc' = FloatArgError(argv, n)
              /\ pc' = "except"
              /\ UNCHANGED <<rendered, out>>
         ELSE /\ env' = ("use_log" :> CliUseLog(argv)) @@
                        ("show_phase" :> CliShowPhase(argv)) @@ parsed
              /\ out' = Append(out, Text("Generating cartridge loading plot..."))
              /\ rendered' = Append(rendered, RendererCall(env'))
              /\ pc' = "render"
              /\ UNCHANGED exc
  /\ UNCHANGED <<argv, typed, request, returned, locals, fs, events, status>>

\* The variant of the handler that ends with sys.exit(0).
CliUsageExitZero ==
  /\ pc = "except"
  /\ Len(argv) > 0
  /\ exc \in {"IndexError", "ValueError"}
  /\ out' = out \o
       << Text("Usage: python cartridge_loading.py L_cart R_cart R_load C_total [scale] [phase]"),
          Text("Arguments:"),
          Text("Example:"),
          Text("  python cartridge_loading.py 500 600 47 200 log yes") >>
  /\ status' = 0
  /\ pc' = "exited"
  /\ UNCHANGED <<argv, typed, env, rendered, request, returned, locals, fs,
                 events, exc>>

\* Lines 295-306: the handler of the command-line mode.
CliUsage ==
  /\ pc = "except"
  /\ Len(argv) > 0
  /\ exc \in {"IndexError", "ValueError"}
  /\ out' = out \o
       << Text("Usage: python cartridge_loading.py L_cart R_cart R_load C_total [scale] [phase]"),
          Text("Arguments:"),
          Text("Example:"),
          Text("  python cartridge_loading.py 500 600 47 200 log yes") >>
  /\ status' = 1
  /\ pc' = "exited"
  /\ UNCHANGED <<argv, typed, env, rendered, request, returned, locals, fs,
                 events, exc>>

\* ------------------------------------------------------------------------
\* Entry point, interactive mode (lines 307-342)
\* ------------------------------------------------------------------------

\* Lines 309-313.
Banner ==
  /\ pc = "start"
  /\ Len(argv) = 0
  /\ out' = out \o << Text("CARTRIDGE LOADING CALCULATOR"),
                      Text("Enter cartridge and loading parameters:"),
                      Text("(Press Enter for defaults shown in brackets)") >>
  /\ pc' = "input_L_cart"
  /\ UNCHANGED <<argv, typed, env, rendered, request, returned, locals, fs,
                 events, exc, status>>

\* The six prompts.
Prompts ==
  {"input_L_cart", "input_R_cart", "input_R_load", "input_C_total",
   "input_scale", "input_phase"}

\* input() raising instead of returning: Ctrl-C, or the end of stdin.
InputRaises ==
  /\ pc \in Prompts
  /\ \E e \in {"KeyboardInterrupt", "EOFError"} : exc' = e
  /\ pc' = "except"
  /\ UNCHANGED <<argv, typed, env, rendered, request, returned, locals, fs,
                 out, events, status>>

\* One numeric prompt of lines 316-326:
\*   x_input = input(...).strip();  x = float(x_input) if x_input else default
InputFloat(at, k, name, default, next) ==
  /\ pc = at
  /\ \E answer \in Answers[k] :
       LET x_input == Strip(answer)
       IN  /\ typed' = Append(typed, answer)
           /\ IF x_input = ""
              THEN /\ env' = (name :> default) @@ env
                   /\ pc' = next
                   /\ UNCHANGED exc
              ELSE IF Parseable(x_input)
              THEN /\ env' = (name :> NumeralValue[x_input]) @@ env
                   /\ pc' = next
                   /\ UNCHANGED exc
              ELSE /\ exc' = "ValueError"
                   /\ pc' = "except"
                   /\ UNCHANGED env
  /\ UNCHANGED <<argv, rendered, request, returned, locals, fs, out, events,
                 status>>

\* Lines 316-317.
InputLCart == InputFloat("input_L_cart", 1, "L_cart", 500, "input_R_cart")

\* Lines 319-320.
InputRCart == InputFloat("input_R_cart", 2, "R_cart", 600, "input_R_load")

\* Lines 322-323.
InputRLoad == InputFloat("input_R_load", 3, "R_load", 47, "input_C_total")

\* Lines 325-326.
\* The variant of lines 325-326 with a default of 100 pF.
InputCTotalDefault100 ==
  InputFloat("input_C_total", 4, "C_total", 100, "input_scale")

InputCTotal == InputFloat("input_C_total", 4, "C_total", 200, "input_scale")

\* Lines 328-329.
InputScale ==
  /\ pc = "input_scale"
  /\ \E answer \in Answers[5] :
       LET scale_input == Lower(Strip(answer))
       IN  /\ typed' = Append(typed, answer)
           /\ env' = ("use_log" :> (scale_input \in {"", "log", "logarithmic"})) @@ env
  /\ pc' = "input_phase"
  /\ UNCHANGED <<argv, rendered, request, returned, locals, fs, out, events,
                 exc, status>>

\* Lines 331-335 up to the call of the renderer.
InputPhase ==
  /\ pc = "input_phase"
  /\ \E answer \in Answers[6] :
       LET phase_input == Lower(Strip(answer))
       IN  /\ typed' = Append(typed, answer)
           /\ env' = ("show_phase" :> (phase_input \in {"", "yes", "y", "true", "1"})) @@ env
  /\ out' = Append(out, Text("Generating cartridge loading plot..."))
  /\ rendered' = Append(rendered, RendererCall(env'))
  /\ pc' = "render"
  /\ UNCHANGED <<argv, request, returned, locals, fs, events, exc, status>>

\* Lines 337-339.
InteractiveInvalid ==
  /\ pc = "except"
  /\ Len(argv) = 0
  /\ exc = "ValueError"
  /\ out' = Append(out, Text("Error: Invalid input - {e}"))
  /\ status' = 1
  /\ pc' = "exited"
  /\ UNCHANGED <<argv, typed, env, rendered, request, returned, locals, fs,
                 events, exc>>

\* Lines 340-342.
InteractiveCancelled ==
  /\ pc = "except"
  /\ Len(argv) = 0
  /\ exc = "KeyboardInterrupt"
  /\ out' = Append(out, Text("Cancelled by user"))
  /\ status' = 1
  /\ pc' = "exited"
  /\ UNCHANGED <<argv, typed, env, rendered, request, returned, locals, fs,
                 events, exc>>

\* An exception no handler of the mode names: the interpreter prints the
\* traceback and exits with status 1.
Uncaught ==
  /\ pc = "except"
  /\ IF Len(argv) > 0 THEN exc \notin {"IndexError", "ValueError"}
     ELSE exc \notin {"ValueError", "KeyboardInterrupt"}
  /\ out' = Append(out, Text("Traceback (most recent call last):"))
  /\ status' = 1
  /\ pc' = "exited"
  /\ UNCHANGED <<argv, typed, env, rendered, request, returned, locals, fs,
                 events, exc>>

\* ------------------------------------------------------------------------
\* plot_cartridge_response (lines 88-275)
\* ------------------------------------------------------------------------

\* np.argmax(a), counted from 1: the first index of the largest value, and
\* the first NaN when there is one.
argmax(a) ==
  IF \E i \in 1 .. Len(a) : IsNaN(a[i])
  THEN CHOOSE i \in 1 .. Len(a) :
         IsNaN(a[i]) /\ \A j \in 1 .. i - 1 : ~IsNaN(a[j])
  ELSE CHOOSE i \in 1 .. Len(a) :
         /\ \A j \in 1 .. Len(a) : a[j] <= a[i]
         /\ \A j \in 1 .. i - 1 : a[j] < a[i]

\* np.abs(freq - f_res): NaN for a NaN f_res, inf for an infinite one.
AbsDiff(f, f_res) ==
  IF IsNaN(f_res) THEN NaN
  ELSE IF f_res \in {PosInf, NegInf} THEN PosInf
  ELSE Abs(f - f_res)

\* np.argmin(a), counted from 1.
argmin(a) ==
  IF \E i \in 1 .. Len(a) : IsNaN(a[i])
  THEN CHOOSE i \in 1 .. Len(a) :
         IsNaN(a[i]) /\ \A j \in 1 .. i - 1 : ~IsNaN(a[j])
  ELSE CHOOSE i \in 1 .. Len(a) :
         /\ \A j \in 1 .. Len(a) : a[j] >= a[i]
         /\ \A j \in 1 .. i - 1 : a[j] > a[i]

\* The arguments of one call of the calculator by the renderer.
CalculatorCall(r, low_Hz, high_Hz, num_points) ==
  [L_cart_mH |-> r.L_cart, R_cart_ohms |-> r.R_cart,
   R_load_kohms |-> r.R_load, C_total_pF |-> r.C_total,
   low_Hz |-> low_Hz, high_Hz |-> high_Hz, num_points |-> num_points]

\* The calculator applied to the arguments of a call.
Respond(c) ==
  cartridge_frequency_response(c.L_cart_mH, c.R_cart_ohms, c.R_load_kohms,
                               c.C_total_pF, c.low_Hz, c.high_Hz, c.num_points)

\* Lines 98-101: the audible sweep.
CalcAudible ==
  /\ pc = "render"
  /\ LET call == CalculatorCall(rendered[1], 20, 20000, NumPointsAudible)
         resp == Respond(call)
     IN  /\ request' = Append(request, call)
         /\ returned' = resp
         /\ events' = Append(events, "calculator")
         /\ IF resp.raised # "none"
            THEN /\ exc' = resp.raised
                 /\ pc' = "except"
                 /\ UNCHANGED locals
            ELSE /\ locals' = [freq_audible  |-> resp.frequencies,
                               mag_audible   |-> resp.magnitude_dB,
                               phase_audible |-> resp.phase_deg,
                               f_res         |-> resp.f_res_ideal,
                               Q             |-> resp.Q]
                 /\ pc' = "calc_extended"
                 /\ UNCHANGED exc
  /\ UNCHANGED <<argv, typed, env, rendered, fs, out, status>>

\* Lines 103-106: the extended sweep; its f_res and Q are discarded.
CalcExtended ==
  /\ pc = "calc_extended"
  /\ LET call == CalculatorCall(rendered[1], 20, 50000, NumPointsExtended)
         resp == Respond(call)
     IN  /\ request' = Append(request, call)
         /\ returned' = resp
         /\ events' = Append(events, "calculator")
         /\ IF resp.raised # "none"
            THEN /\ exc' = resp.raised
                 /\ pc' = "except"
                 /\ UNCHANGED locals
            ELSE /\ locals' = [freq_extended  |-> resp.frequencies,
                               mag_extended   |-> resp.magnitude_dB,
                               phase_extended |-> resp.phase_deg] @@ locals
                 /\ pc' = "figure"
                 /\ UNCHANGED exc
  /\ UNCHANGED <<argv, typed, env, rendered, fs, out, status>>

\* The variant that reports the peak of the extended sweep.
PeakOfExtendedSweep(l) ==
  LET peak_idx == argmax(l.mag_extended)
  IN  [peak_idx      |-> peak_idx,
       peak_freq     |-> l.freq_extended[peak_idx],
       peak_mag      |-> l.mag_extended[peak_idx],
       phase_at_peak |-> l.phase_extended[peak_idx]]

\* The peak of the audible sweep (lines 115-117, 152).
PeakAudible(l) ==
  LET peak_idx == argmax(l.mag_audible)
  IN  [peak_idx      |-> peak_idx,
       peak_freq     |-> l.freq_audible[peak_idx],
       peak_mag      |-> l.mag_audible[peak_idx],
       phase_at_peak |-> l.phase_audible[peak_idx]]

\* The peak of the extended sweep (lines 173-175, 211-213).
PeakExtended(l) ==
  LET peak_idx_ext == argmax(l.mag_extended)
      idx_ideal    == argmin([i \in 1 .. Len(l.freq_extended) |->
                                AbsDiff(l.freq_extended[i], l.f_res)])
  IN  [peak_idx_ext      |-> peak_idx_ext,
       peak_freq_ext     |-> l.freq_extended[peak_idx_ext],
       peak_mag_ext      |-> l.mag_extended[peak_idx_ext],
       phase_at_peak_ext |-> l.phase_extended[peak_idx_ext],
       idx_ideal         |-> idx_ideal,
       phase_at_ideal    |-> l.phase_extended[idx_ideal]]

\* Lines 108-238: the figure.  The peaks are located and the two panels
\* drawn; the phase values are looked up only when the phase is shown.
Figure ==
  /\ pc = "figure"
  /\ LET a == PeakAudible(locals)
         e == PeakExtended(locals)
         shown == rendered[1].show_phase
     IN  locals' =
           [n \in {"peak_idx", "peak_freq", "peak_mag"}
                  \cup (IF shown THEN {"phase_at_peak"} ELSE {}) |-> a[n]]
           @@ [n \in {"peak_idx_ext", "peak_freq_ext", "peak_mag_ext"}
                  \cup (IF shown THEN {"phase_at_peak_ext", "idx_ideal",
                                       "phase_at_ideal"} ELSE {}) |-> e[n]]
           @@ locals
  /\ events' = Append(events, "figure")
  /\ pc' = "makedirs"
  /\ UNCHANGED <<argv, typed, env, rendered, request, returned, fs, out, exc,
                 status>>

\* Line 241: os.makedirs(output_dir, exist_ok=True) returns, or raises.
Makedirs ==
  /\ pc = "makedirs"
  /\ events' = Append(events, "makedirs")
  /\ \/ /\ fs' = [fs EXCEPT !.output_dir = TRUE]
        /\ pc' = "savefig"
        /\ UNCHANGED exc
     \/ /\ exc' = "OSError"
        /\ pc' = "except"
        /\ UNCHANGED fs
  /\ UNCHANGED <<argv, typed, env, rendered, request, returned, locals, out,
                 status>>

\* The variant of lines 242-244 that goes on after a failed write.
SavefigIgnoringFailure ==
  /\ pc = "savefig"
  /\ events' = Append(events, "savefig")
  /\ \/ fs' = [fs EXCEPT !.image = TRUE]
     \/ UNCHANGED fs
  /\ pc' = "print_saved"
  /\ UNCHANGED <<argv, typed, env, rendered, request, returned, locals, out,
                 exc, status>>

\* Lines 242-244: plt.savefig(output_path, ...) writes the image, or raises.
Savefig ==
  /\ pc = "savefig"
  /\ events' = Append(events, "savefig")
  /\ \/ /\ fs' = [fs EXCEPT !.image = TRUE]
        /\ pc' = "print_saved"
        /\ UNCHANGED exc
     \/ /\ exc' = "OSError"
        /\ pc' = "except"
        /\ UNCHANGED fs
  /\ UNCHANGED <<argv, typed, env, rendered, request, returned, locals, out,
                 status>>

\* Line 245.
PrintSaved ==
  /\ pc = "print_saved"
  /\ out' = Append(out, Text("Plot saved to: {output_path}"))
  /\ events' = Append(events, "print saved")
  /\ pc' = "report"
  /\ UNCHANGED <<argv, typed, env, rendered, request, returned, locals, fs,
                 exc, status>>

UnderDamped == "  Damping:             Under-damped (resonant peak visible)"

OverDamped == "  Damping:             Critically/Over-damped (minimal peak)"

\* The variant of line 262 with Q >= 1.
DampingLineNonStrict(Q) ==
  IF Ge(Q, 1000) THEN Text(UnderDamped) ELSE Text(OverDamped)

\* Line 262: Q in thousandths against 1.
DampingLine(Q) == IF Gt(Q, 1000) THEN Text(UnderDamped) ELSE Text(OverDamped)

Significant == "  Significant treble boost of {peak_mag:.1f}dB at {peak_freq:.0f}Hz"

Moderate == "  Moderate treble lift of {peak_mag:.1f}dB at {peak_freq:.0f}Hz"

WellDamped == "  Well-damped response with minimal peak ({peak_mag:.1f}dB)"

\* The variant of lines 266-274 with >= for both comparisons.
InterpretationLinesNonStrict(peak_mag, peak_freq) ==
  IF Ge(peak_mag, 30)
  THEN << Line(Significant, <<peak_mag, Format0(peak_freq)>>),
          Text("    This may sound bright or harsh. Consider reducing capacitance.") >>
  ELSE IF Ge(peak_mag, 10)
  THEN << Line(Moderate, <<peak_mag, Format0(peak_freq)>>),
          Text("    This is typical and usually not problematic.") >>
  ELSE << Line(WellDamped, <<peak_mag>>),
          Text("    Good loading for this cartridge.") >>

\* Lines 266-274: peak_mag in deci-decibels against 3.0 and 1.0.
InterpretationLines(peak_mag, peak_freq) ==
  IF Gt(peak_mag, 30)
  THEN << Line(Significant, <<peak_mag, Format0(peak_freq)>>),
          Text("    This may sound bright or harsh. Consider reducing capacitance.") >>
  ELSE IF Gt(peak_mag, 10)
  THEN << Line(Moderate, <<peak_mag, Format0(peak_freq)>>),
          Text("    This is typical and usually not problematic.") >>
  ELSE << Line(WellDamped, <<peak_mag>>),
          Text("    Good loading for this cartridge.") >>

\* Lines 247-275: the report.
PrintReport ==
  /\ pc = "report"
  /\ out' = out \o
       << Text("CARTRIDGE LOADING ANALYSIS"),
          Text("Cartridge Parameters:"),
          Line("  Inductance:      {L_cart} mH", <<rendered[1].L_cart>>),
          Line("  DC Resistance:   {R_cart} Ohm", <<rendered[1].R_cart>>),
          Text("Load Parameters:"),
          Line("  Load Resistance: {R_load} kOhm", <<rendered[1].R_load>>),
          Line("  Total Capacitance: {C_total} pF", <<rendered[1].C_total>>),
          Text("Calculated Results:"),
          Line("  Ideal LC Resonance:  {f_res:.1f} Hz", <<locals.f_res>>),
          Line("  Actual Peak Freq:    {peak_freq:.1f} Hz", <<locals.peak_freq>>),
          Line("  Peak Magnitude:      {peak_mag:.2f} dB", <<locals.peak_mag>>),
          Line("  Q Factor:            {Q:.3f}", <<locals.Q>>),
          DampingLine(locals.Q),
          Text("Interpretation:") >>
       \o InterpretationLines(locals.peak_mag, locals.peak_freq)
       \o << Text("============================================================") >>
  /\ events' = Append(events, "print report")
  /\ pc' = "return"
  /\ UNCHANGED <<argv, typed, env, rendered, request, returned, locals, fs,
                 exc, status>>

\* The renderer returns and the script ends: exit status 0.
Exit ==
  /\ pc = "return"
  /\ status' = 0
  /\ pc' = "exited"
  /\ UNCHANGED <<argv, typed, env, rendered, request, returned, locals, fs,
                 out, events, exc>>

Next ==
  \/ CliParse
  \/ CliUsage
  \/ Banner
  \/ InputRaises
  \/ InputLCart
  \/ InputRCart
  \/ InputRLoad
  \/ InputCTotal
  \/ InputScale
  \/ InputPhase
  \/ InteractiveInvalid
  \/ InteractiveCancelled
  \/ Uncaught
  \/ CalcAudible
  \/ CalcExtended
  \/ Figure
  \/ Makedirs
  \/ Savefig
  \/ PrintSaved
  \/ PrintReport
  \/ Exit

Spec == Init /\ [][Next]_vars


\* ------------------------------------------------------------------------
\* The calculator on its own
\* ------------------------------------------------------------------------

InitCalc ==
  /\ argv = << >>
  /\ typed = << >>
  /\ pc = "call"
  /\ env = Empty
  /\ rendered = << >>
  /\ \E c \in CalculatorCalls : c.low_Hz < c.high_Hz /\ request = << c >>
  /\ returned = NoResponse
  /\ locals = Empty
  /\ fs = [output_dir |-> TRUE, image |-> FALSE]
  /\ out = << >>
  /\ events = << >>
  /\ exc = "none"
  /\ status = -1

\* One call of cartridge_frequency_response.
Calculate ==
  /\ pc = "call"
  /\ returned' = Respond(request[1])
  /\ events' = Append(events, "calculator")
  /\ pc' = "returned"
  /\ UNCHANGED <<argv, typed, env, rendered, request, locals, fs, out, exc,
                 status>>

NextCalc == Calculate

SpecCalc == InitCalc /\ [][NextCalc]_vars


\* ------------------------------------------------------------------------
\* Properties
\* ------------------------------------------------------------------------

\* A line with this text has been printed.
Printed(text) == \E i \in 1 .. Len(out) : out[i].text = text

\* The lines with this text, by position.
LinesOf(text) == {i \in 1 .. Len(out) : out[i].text = text}

\* The values shown by the only line with this text.
Shown(text) == out[CHOOSE i \in 1 .. Len(out) : out[i].text = text].values

ReportPrinted == Printed("Interpretation:")

\* The tier texts printed, by position.
TierLines == LinesOf(Significant) \cup LinesOf(Moderate) \cup LinesOf(WellDamped)

\* C1: in the report the interpretation tier follows from the audible peak
\* magnitude alone: above 3.0 dB the "significant treble boost" warning,
\* otherwise above 1.0 dB the "moderate treble lift" notice, otherwise the
\* "well-damped" confirmation; both comparisons are strict, and exactly one
\* tier is printed.
C1_TierFromPeakMagnitude ==
  ReportPrinted =>
    LET peak_mag == Shown("  Peak Magnitude:      {peak_mag:.2f} dB")[1]
        tier == IF peak_mag # NaN /\ peak_mag > 30 THEN Significant
                ELSE IF peak_mag # NaN /\ peak_mag > 10 THEN Moderate
                ELSE WellDamped
    IN  /\ peak_mag = locals.peak_mag
        /\ Cardinality(TierLines) = 1
        /\ \A i \in TierLines : out[i].text = tier /\ out[i].values[1] = peak_mag

\* C1 witness: a report for a peak of exactly 3.0 dB, which falls in the
\* "moderate" tier.
C1_Witness ==
  /\ ReportPrinted
  /\ locals.peak_mag = 30
  /\ Printed(Moderate)

\* C2: the damping line follows from the Q the calculator returned alone:
\* "Under-damped" when Q > 1, and "Critically/Over-damped" for every other
\* Q, exactly 1 included, whatever the peak magnitude and the tier.
C2_DampingFromQ ==
  ReportPrinted =>
    LET Q == Shown("  Q Factor:            {Q:.3f}")[1]
        under == Q # NaN /\ Q > 1000
    IN  /\ Q = locals.Q
        /\ Q = returned.Q
        /\ Printed(UnderDamped) <=> under
        /\ Printed(OverDamped) <=> ~under
        /\ Cardinality(LinesOf(UnderDamped) \cup LinesOf(OverDamped)) = 1

\* C2 witness: a report for a Q of exactly 1, printed as
\* "Critically/Over-damped".
C2_Witness ==
  /\ ReportPrinted
  /\ locals.Q = 1000
  /\ Printed(OverDamped)

\* The peaks have been located.
PeaksLocated == "peak_idx" \in DOMAIN locals

\* i is the index of a largest value of the array a.
IsGlobalMaxIndex(a, i) ==
  /\ i \in 1 .. Len(a)
  /\ \A j \in 1 .. Len(a) : Ge(a[i], a[j])

\* C3: for each sweep the peak index is the index of a global maximum of the
\* sweep's magnitudes, and the peak frequency, the peak magnitude and the
\* phase at the peak are that sweep's entries at that index; the report
\* shows the peak frequency, the peak magnitude and the tier of the audible
\* sweep, also when the extended sweep has a higher maximum.
C3_PeakAtGlobalMaximum ==
  /\ PeaksLocated =>
       /\ IsGlobalMaxIndex(locals.mag_audible, locals.peak_idx)
       /\ locals.peak_freq = locals.freq_audible[locals.peak_idx]
       /\ locals.peak_mag = locals.mag_audible[locals.peak_idx]
       /\ "phase_at_peak" \in DOMAIN locals =>
            locals.phase_at_peak = locals.phase_audible[locals.peak_idx]
       /\ IsGlobalMaxIndex(locals.mag_extended, locals.peak_idx_ext)
       /\ locals.peak_freq_ext = locals.freq_extended[locals.peak_idx_ext]
       /\ locals.peak_mag_ext = locals.mag_extended[locals.peak_idx_ext]
       /\ "phase_at_peak_ext" \in DOMAIN locals =>
            locals.phase_at_peak_ext = locals.phase_extended[locals.peak_idx_ext]
       /\ request[1].high_Hz = 20000 /\ request[1].num_points = NumPointsAudible
       /\ request[2].high_Hz = 50000 /\ request[2].num_points = NumPointsExtended
       /\ Len(locals.mag_audible) = NumPointsAudible
       /\ Len(locals.mag_extended) = NumPointsExtended
  /\ ReportPrinted =>
       /\ Shown("  Actual Peak Freq:    {peak_freq:.1f} Hz")
            = << locals.freq_audible[locals.peak_idx] >>
       /\ Shown("  Peak Magnitude:      {peak_mag:.2f} dB")
            = << locals.mag_audible[locals.peak_idx] >>
       /\ \A i \in TierLines :
            out[i].values[1] = locals.mag_audible[locals.peak_idx]

\* C3 witness: a report of an audible peak in the "moderate" tier although
\* the extended sweep peaks higher, above 3.0 dB.
C3_Witness ==
  /\ ReportPrinted
  /\ locals.peak_mag_ext > 30
  /\ locals.peak_mag <= 30
  /\ Printed(Moderate)


\* The frequencies f are strictly increasing.
StrictlyIncreasing(f) == \A i \in 1 .. Len(f) - 1 : f[i] < f[i + 1]

\* x, in tenths, is within 1.2 % of the integer v: half a step of the
\* exponent's resolution.
NearlyEqual(x, v) == Abs(x - 10 * v) * 1000 <= 12 * 10 * v

ExampleScenario ==
  /\ rendered # << >>
  /\ rendered[1].L_cart = 500
  /\ rendered[1].R_cart = 600
  /\ rendered[1].R_load = 47
  /\ rendered[1].C_total = 200

\* C5 as claimed: for the example scenario Q is about 0.0332, not greater
\* than 1, and the report says critically/over-damped.
C5_ExampleOverDamped ==
  (ExampleScenario /\ ReportPrinted) =>
    /\ locals.Q \in 32 .. 34
    /\ Printed(OverDamped)

\* C5 as amended: for the example scenario Q is about 1.050 (sqrt(L/C) is
\* 50000 ohms, over 47600 ohms), greater than 1, and the report says
\* under-damped.
C5_ExampleUnderDamped ==
  (ExampleScenario /\ ReportPrinted) =>
    /\ locals.Q \in 1049 .. 1051
    /\ Shown("  Q Factor:            {Q:.3f}") = << locals.Q >>
    /\ Printed(UnderDamped)
    /\ ~Printed(OverDamped)

\* C5 witness: the report of the example scenario.
C5_Witness ==
  /\ ExampleScenario
  /\ ReportPrinted
  /\ Printed(UnderDamped)

\* The steps of a complete run of the renderer, in order.
RendererSteps ==
  << "calculator", "calculator", "figure", "makedirs", "savefig",
     "print saved", "print report" >>

IsPrefix(a, b) == Len(a) <= Len(b) /\ \A i \in 1 .. Len(a) : a[i] = b[i]

Saved == "Plot saved to: {output_path}"

\* C6: the renderer calls the calculator twice, then makes the output
\* directory, then writes the image, then prints the "Plot saved" line,
\* then the report, each once; a failure of the directory creation or of
\* the image write ends the run with a non-zero status and without that
\* line and without any of the report, and the line is printed only after
\* the image was written.
C6_OrderAndFatalIO ==
  /\ IsPrefix(events, RendererSteps)
  /\ Len(request) = Cardinality({i \in 1 .. Len(events) : events[i] = "calculator"})
  /\ Printed(Saved) => fs.image /\ Len(events) >= 6
  /\ fs.image => Len(events) >= 5 /\ exc = "none"
  /\ ReportPrinted => Printed(Saved) /\ Len(events) = 7
  /\ \A i \in LinesOf(Saved) : \A j \in LinesOf("CARTRIDGE LOADING ANALYSIS") : i < j
  /\ exc = "OSError" =>
       /\ events[Len(events)] \in {"makedirs", "savefig"}
       /\ ~fs.image
       /\ ~Printed(Saved)
       /\ ~ReportPrinted
       /\ ~Printed("CARTRIDGE LOADING ANALYSIS")
       /\ pc \in {"except", "exited"}
       /\ pc = "exited" => status = 1

\* C6 witness: the run has ended on a failed image write.
C6_Witness ==
  /\ exc = "OSError"
  /\ pc = "exited"
  /\ events[Len(events)] = "savefig"
  /\ status = 1

\* The command line lacks one of the four numbers, or one is no number.
BadArguments ==
  /\ Len(argv) > 0
  /\ \E i \in 1 .. 4 : i > Len(argv) \/ argv[i] \in {"abc"}

\* A numeric prompt was answered with something that is no number.
BadAnswer ==
  \E k \in 1 .. Len(typed) : k <= 4 /\ typed[k] \in {"abc"}

UsageLine == "Usage: python cartridge_loading.py L_cart R_cart R_load C_total [scale] [phase]"

ExampleLine == "  python cartridge_loading.py 500 600 47 200 log yes"

\* C7: with arguments, a missing or unparseable one among the first four
\* makes the program print the usage text with the example and end with a
\* non-zero status, the renderer never called; without arguments, an
\* unparseable numeric answer makes it print an error and end with a
\* non-zero status, and so does an interruption of the input, the renderer
\* never called.
C7_InvalidInputExits ==
  /\ BadArguments =>
       /\ rendered = << >>
       /\ pc \in {"start", "except", "exited"}
       /\ pc = "except" => ENABLED CliUsage
       /\ pc = "exited" =>
            status = 1 /\ Printed(UsageLine) /\ Printed(ExampleLine)
  /\ BadAnswer =>
       /\ rendered = << >>
       /\ pc \in {"except", "exited"}
       /\ pc = "except" => ENABLED InteractiveInvalid
       /\ pc = "exited" => status = 1 /\ Printed("Error: Invalid input - {e}")
  /\ exc = "KeyboardInterrupt" =>
       /\ rendered = << >>
       /\ pc \in {"except", "exited"}
       /\ pc = "except" => ENABLED InteractiveCancelled
       /\ pc = "exited" => status = 1

\* C7 witness: a command line of three numbers has ended on the usage text.
C7_Witness ==
  /\ Len(argv) = 3
  /\ \A i \in 1 .. 3 : Parseable(argv[i])
  /\ pc = "exited"
  /\ status = 1
  /\ Printed(UsageLine)

\* The circuit values read so far violate the data model.
StructurallyInvalid ==
  \/ "L_cart" \in DOMAIN env /\ env.L_cart <= 0
  \/ "R_cart" \in DOMAIN env /\ env.R_cart < 0
  \/ "R_load" \in DOMAIN env /\ env.R_load <= 0
  \/ "C_total" \in DOMAIN env /\ env.C_total <= 0

\* C8: circuit values that are numbers but violate the data model are
\* refused at the entry: neither the renderer nor the calculator is called
\* with them, and the program ends with a non-zero status.
C8_InvalidValuesRefused ==
  StructurallyInvalid =>
    /\ rendered = << >>
    /\ request = << >>
    /\ pc = "exited" => status # 0

\* The tokens of the model that str.lower() takes into line 289's list.
ScaleLogTokens == {"log", "LOG", "logarithmic", "true", "1"}

\* The tokens of the model that str.lower() takes into line 290's list.
PhaseShownTokens == {"phase", "true", "1", "yes", "Yes"}

\* The renderer was called from the command line.
CliRendered == Len(argv) > 0 /\ rendered # << >>

\* C9 as claimed: the fifth argument selects the logarithmic axis iff it is
\* one of log, logarithmic, true, 1, and the sixth shows the phase iff it is
\* one of phase, true, 1, yes; each defaults to true when absent; the
\* renderer gets these two booleans and the four numbers.
C9_FlagsExactTokens ==
  CliRendered =>
    /\ rendered[1].use_log_scale
         = (Len(argv) < 5 \/ argv[5] \in {"log", "logarithmic", "true", "1"})
    /\ rendered[1].show_phase
         = (Len(argv) < 6 \/ argv[6] \in {"phase", "true", "1", "yes"})
    /\ rendered[1].L_cart = NumeralValue[argv[1]]
    /\ rendered[1].R_cart = NumeralValue[argv[2]]
    /\ rendered[1].R_load = NumeralValue[argv[3]]
    /\ rendered[1].C_total = NumeralValue[argv[4]]

\* C9 as amended: the same, the two arguments compared without regard to
\* case (LOG selects the logarithmic axis, Yes shows the phase).
C9_FlagsIgnoringCase ==
  CliRendered =>
    /\ rendered[1].use_log_scale = (Len(argv) < 5 \/ argv[5] \in ScaleLogTokens)
    /\ rendered[1].show_phase = (Len(argv) < 6 \/ argv[6] \in PhaseShownTokens)
    /\ rendered[1].L_cart = NumeralValue[argv[1]]
    /\ rendered[1].R_cart = NumeralValue[argv[2]]
    /\ rendered[1].R_load = NumeralValue[argv[3]]
    /\ rendered[1].C_total = NumeralValue[argv[4]]
    /\ Len(rendered) = 1

\* C9 witness: the renderer called with the logarithmic axis for LOG.
C9_Witness ==
  /\ CliRendered
  /\ Len(argv) >= 5
  /\ argv[5] = "LOG"
  /\ rendered[1].use_log_scale

\* The value the renderer got for the k-th prompt.
PromptValue(k) ==
  CASE k = 1 -> << "number", rendered[1].L_cart >>
    [] k = 2 -> << "number", rendered[1].R_cart >>
    [] k = 3 -> << "number", rendered[1].R_load >>
    [] k = 4 -> << "number", rendered[1].C_total >>
    [] k = 5 -> << "flag", rendered[1].use_log_scale >>
    [] k = 6 -> << "flag", rendered[1].show_phase >>

\* The stated default of the k-th prompt.
PromptDefault(k) ==
  CASE k = 1 -> << "number", 500 >>
    [] k = 2 -> << "number", 600 >>
    [] k = 3 -> << "number", 47 >>
    [] k = 4 -> << "number", 200 >>
    [] k = 5 -> << "flag", TRUE >>
    [] k = 6 -> << "flag", TRUE >>

\* C10: the prompts are shown iff there is no argument; they are six, and
\* the renderer gets the stated default (500 mH, 600 ohms, 47 kilohms,
\* 200 pF, logarithmic, phase shown) for every prompt answered with the
\* empty string, whatever the other answers.
C10_EmptyAnswerIsDefault ==
  /\ pc # "start" =>
       (Printed("Enter cartridge and loading parameters:") <=> Len(argv) = 0)
  /\ typed # << >> => Len(argv) = 0
  /\ Len(typed) <= 6
  /\ (Len(argv) = 0 /\ rendered # << >>) =>
       /\ Len(typed) = 6
       /\ \A k \in 1 .. 6 : typed[k] = "" => PromptValue(k) = PromptDefault(k)

\* C10 witness: the renderer called after six empty answers.
C10_Witness ==
  /\ Len(argv) = 0
  /\ rendered # << >>
  /\ typed = << "", "", "", "", "", "" >>

====
